---- MODULE Spec2Model ----
(***************************************************************************)
(* Model of analyze_image.py: the Rekognition image labeling pipeline.     *)
(*                                                                         *)
(* main() validates four environment variables, lists images/*.jpg and     *)
(* images/*.png, builds three boto3 clients and then, for every file,      *)
(* uploads it to S3, asks Rekognition for labels and writes a DynamoDB     *)
(* item.  An exception of a step is caught by the try/except of main's     *)
(* loop, which logs it and continues with the next file.                   *)
(*                                                                         *)
(* The three services are black boxes: every call either returns or        *)
(* raises, and the choice is nondeterministic.                             *)
(***************************************************************************)
EXTENDS Integers, Sequences, FiniteSets, TLC

VARIABLES
    environ,        \* os.environ restricted to the four required names
    dirExists,      \* Path('images').exists()
    dirEntries,     \* the entries of images/
    pc,             \* position of main()
    config,         \* the dict returned by validate_environment()
    image_files,    \* the list returned by get_image_files()
    clients,        \* TRUE once the three boto3 clients are constructed
    idx,            \* position of the for loop in image_files (1-based)
    s3_key,         \* local of process_single_image
    labels,         \* local of process_single_image
    now,            \* the clock read by datetime.utcnow()
    calls,          \* history of the calls made to the three clients
    returned,       \* per file name, the labels detect_labels returned
    s3objects,      \* keys of the objects stored in the bucket
    table,          \* items stored in the DynamoDB table
    dirChecked,     \* images_dir.exists() was evaluated
    listed,         \* images_dir.glob() was evaluated
    processedLog,   \* names printed by "Successfully processed" (line 148)
    failedLog,      \* names printed by "Failed to process" (line 180)
    completed,      \* "Pipeline completed!" was printed (line 184)
    exitStatus,     \* process exit status, NoStatus while running
    firstRun        \* what an earlier run over image_files did for one file

vars == <<environ, dirExists, dirEntries, pc, config, image_files, clients,
          idx, s3_key, labels, now, calls, returned, s3objects, table,
          dirChecked, listed, processedLog, failedLog, completed, exitStatus,
          firstRun>>

(***************************************************************************)
(* Bounds of the model.                                                    *)
(***************************************************************************)
MaxFiles == 3       \* largest number of entries of images/
MaxResp  == 3       \* longest label list a detect_labels response carries
MaxClock == 0       \* the clock advances at most this many ticks

(***************************************************************************)
(* Environment.                                                            *)
(***************************************************************************)
required_vars == <<"S3_BUCKET", "AWS_REGION", "DYNAMODB_TABLE", "BRANCH_NAME">>

RequiredNames == {required_vars[i] : i \in 1..Len(required_vars)}

Unset == "<unset>"

\* a value of the variable var that is set and not empty
ValueOf(var) == "val:" \o var

\* os.environ.get(var): None when the variable is unset, else its value
\* (possibly the empty string)
EnvValues(var) == {Unset, "", ValueOf(var)}

Environments ==
    {env \in [RequiredNames -> UNION {EnvValues(var) : var \in RequiredNames}] :
        \A var \in RequiredNames : env[var] \in EnvValues(var)}

\* the mutant below tests for None only
FalsyNoneOnly(v) == v = Unset

\* not os.environ.get(var): None and '' are both falsy
Falsy(v) == v = Unset \/ v = ""

\* the mutant below forgets the last required variable
MissingOmitLast(env) ==
    SelectSeq(SubSeq(required_vars, 1, Len(required_vars) - 1),
              LAMBDA var : Falsy(env[var]))

\* missing = [var for var in required_vars if not os.environ.get(var)]
Missing(env) == SelectSeq(required_vars, LAMBDA var : Falsy(env[var]))

(***************************************************************************)
(* The input directory.  An entry is a file name split in stem and suffix. *)
(***************************************************************************)
EntryPool ==
    << [stem |-> "a", suffix |-> ".jpg"],
       [stem |-> "b", suffix |-> ".png"],
       [stem |-> "c", suffix |-> ".jpg"],
       [stem |-> "n", suffix |-> ".txt"],
       [stem |-> "d", suffix |-> ".JPG"],
       [stem |-> "e", suffix |-> ".png"] >>

Entries == {EntryPool[i] : i \in 1..Len(EntryPool)}

\* image_file.name
Name(e) == e.stem \o e.suffix

\* the mutant below matches the suffix whatever its case
GlobAnyCase(entries, pattern) ==
    {e \in entries : e.suffix = pattern \/
                     (pattern = ".jpg" /\ e.suffix = ".JPG") \/
                     (pattern = ".png" /\ e.suffix = ".PNG")}

\* images_dir.glob('*' + pattern): the entries whose name ends in pattern
\* (case-sensitive, not recursive)
Glob(entries, pattern) == {e \in entries : e.suffix = pattern}

\* the orders in which a directory listing can yield the set S
Orders(S) ==
    {q \in [1..Cardinality(S) -> S] : \A i, j \in 1..Cardinality(S) :
                                          i /= j => q[i] /= q[j]}

(***************************************************************************)
(* Labels.  A confidence returned by detect_labels is a float; the model   *)
(* takes the floats that are a whole number of 64ths of a percent (6344    *)
(* is 99.125), each of them exactly representable.  A rounded confidence   *)
(* is a number of hundredths of a percent (9912 is 99.12).                 *)
(***************************************************************************)
LabelPool ==
    << [Name |-> "Dog",    Confidence |-> 6344],    \* 99.125
       [Name |-> "Pet",    Confidence |-> 6321],    \* 98.765625
       [Name |-> "Canine", Confidence |-> 6400],    \* 100.0
       [Name |-> "Animal", Confidence |-> 4504],    \* 70.375
       [Name |-> "Grass",  Confidence |-> 4480] >>  \* 70.0

\* the responses of detect_labels: no label, one label, MaxResp labels
VisionResponses == {SubSeq(LabelPool, 1, n) : n \in {0, 1, MaxResp}}

\* the mutant below cuts the digits after the second decimal
Round2Truncate(n) == (25 * n) \div 16

\* round(x, 2) of the float n/64: the hundredth nearest to 25n/16, a tie
\* going to the even one (round(99.125, 2) is 99.12, round(70.375, 2) is
\* 70.38)
Round2(n) ==
    LET q == (25 * n) \div 16
        r == (25 * n) % 16
    IN  IF r > 8 \/ (r = 8 /\ q % 2 = 1) THEN q + 1 ELSE q

\* the mutant below returns the labels sorted by descending confidence
FormatLabelsSorted(ls) ==
    [i \in 1..Len(ls) |->
        LET j == CHOOSE k \in 1..Len(ls) :
                    Cardinality({m \in 1..Len(ls) :
                        \/ ls[m].Confidence > ls[k].Confidence
                        \/ (ls[m].Confidence = ls[k].Confidence /\ m < k)})
                        = i - 1
        IN  [Name |-> ls[j].Name, Confidence |-> Round2(ls[j].Confidence)]]

\* formatted_labels (lines 73-79)
FormatLabels(ls) ==
    [i \in 1..Len(ls) |->
        [Name |-> ls[i].Name, Confidence |-> Round2(ls[i].Confidence)]]

(***************************************************************************)
(* Requests.                                                               *)
(***************************************************************************)
Prefix == "rekognition-input/"

\* s3_key = f"rekognition-input/{image_file.name}"
S3Key(name) == Prefix \o name

\* the mutant below analyses the object named by the bare file name
AnalyzedNameBare(name, key) == name

\* the Name of the S3Object process_single_image has analysed (line 137)
AnalyzedName(name, key) == key

\* the filename process_single_image hands to store_results_in_dynamodb
\* (line 143)
RecordFilename(name, key) == key

\* item (lines 94-99)
Item(filename, timestamp, ls, branch_name) ==
    [filename  |-> filename,
     timestamp |-> timestamp,
     labels    |-> ls,
     branch    |-> branch_name]

(***************************************************************************)
(* json.dumps(item['labels']) (line 106).  The text is kept as its         *)
(* sequence of tokens: "[", then per label "{", "Name", the name,          *)
(* "Confidence", the text of the number, "}", then "]".                    *)
(***************************************************************************)
\* repr of the float h/100, as json.dumps writes it: the shortest text,
\* with at least one decimal (99.12, 99.1, 85.0)
FloatRepr(h) ==
    ToString(h \div 100) \o "." \o
        (IF h % 10 = 0 THEN ToString((h % 100) \div 10)
         ELSE ToString((h % 100) \div 10) \o ToString(h % 10))

RECURSIVE JsonDumpsFrom(_, _)
JsonDumpsFrom(ls, i) ==
    IF i > Len(ls) THEN << "]" >>
    ELSE << "{", "Name", ls[i].Name,
            "Confidence", FloatRepr(ls[i].Confidence), "}" >>
             \o JsonDumpsFrom(ls, i + 1)

JsonDumps(ls) == << "[" >> \o JsonDumpsFrom(ls, 1)

\* the Item argument of put_item (lines 103-108)
DynamoItem(item) ==
    [filename  |-> item.filename,
     timestamp |-> item.timestamp,
     labels    |-> JsonDumps(item.labels),
     branch    |-> item.branch]

\* one entry of the call history
Call(op, file, key, ok) == [op |-> op, file |-> file, key |-> key, ok |-> ok]

\* exitStatus while the process runs
NoStatus == 0 - 1

\* firstRun while no earlier run is on record
NoRun == [done |-> FALSE, file |-> "", calls |-> <<>>, given |-> <<>>,
          items |-> {}, otherFailed |-> FALSE]

NoConfig == [bucket |-> Unset, region |-> Unset,
             dynamodb_table |-> Unset, branch_name |-> Unset]

\* the mutant below identifies an item by its timestamp alone
PutItemByTimestamp(tbl, item) ==
    {r \in tbl : r.timestamp /= item.timestamp} \cup {item}

\* put_item: the table holds one item per (filename, timestamp)
PutItem(tbl, item) ==
    {r \in tbl : ~(r.filename = item.filename /\ r.timestamp = item.timestamp)}
        \cup {item}

Min(a, b) == IF a < b THEN a ELSE b

(***************************************************************************)
(* Initial states: any environment, any content of images/.                *)
(***************************************************************************)
Init ==
    /\ environ \in Environments
    /\ dirExists \in BOOLEAN
    /\ dirEntries \in {S \in SUBSET Entries :
                          /\ Cardinality(S) <= MaxFiles
                          /\ (~dirExists => S = {})}
    /\ pc = "validate"
    /\ config = NoConfig
    /\ image_files = <<>>
    /\ clients = FALSE
    /\ idx = 1
    /\ s3_key = ""
    /\ labels = <<>>
    /\ now = 0
    /\ calls = <<>>
    /\ returned = [f \in {} |-> <<>>]
    /\ s3objects = {}
    /\ table = {}
    /\ dirChecked = FALSE
    /\ listed = FALSE
    /\ processedLog = {}
    /\ failedLog = {}
    /\ completed = FALSE
    /\ exitStatus = NoStatus
    /\ firstRun = NoRun

\* sys.exit(status)
Exit(status) ==
    /\ pc' = "exited"
    /\ exitStatus' = status

(***************************************************************************)
(* validate_environment (lines 8-23), called at line 159.                  *)
(***************************************************************************)
ValidateEnvironment ==
    /\ pc = "validate"
    /\ IF Missing(environ) /= <<>>
       THEN /\ Exit(1)
            /\ UNCHANGED config
       ELSE /\ config' = [bucket         |-> environ["S3_BUCKET"],
                          region         |-> environ["AWS_REGION"],
                          dynamodb_table |-> environ["DYNAMODB_TABLE"],
                          branch_name    |-> environ["BRANCH_NAME"]]
            /\ pc' = "get_image_files"
            /\ UNCHANGED exitStatus
    /\ UNCHANGED <<firstRun, returned, environ, dirExists, dirEntries, image_files, clients, idx,
                   s3_key, labels, now, calls, s3objects, table, dirChecked,
                   listed, processedLog, failedLog, completed>>

(***************************************************************************)
(* get_image_files (lines 25-41), called at line 162.                      *)
(***************************************************************************)
\* the mutant below lists the directory without testing that it exists
GetImageFilesNoExists ==
    /\ pc = "get_image_files"
    /\ listed' = TRUE
    /\ \E jpg \in Orders(Glob(dirEntries, ".jpg")),
          png \in Orders(Glob(dirEntries, ".png")) :
          /\ image_files' = jpg \o png
          /\ IF jpg \o png = <<>>
             THEN Exit(0)
             ELSE pc' = "clients" /\ UNCHANGED exitStatus
    /\ UNCHANGED <<firstRun, returned, environ, dirExists, dirEntries, config, clients, idx,
                   s3_key, labels, now, calls, s3objects, table, dirChecked,
                   processedLog, failedLog, completed>>

\* the mutant below lists the *.png files before the *.jpg files
GetImageFilesPngFirst ==
    /\ pc = "get_image_files"
    /\ dirChecked' = TRUE
    /\ IF ~dirExists
       THEN /\ Exit(1)
            /\ UNCHANGED <<image_files, listed>>
       ELSE /\ listed' = TRUE
            /\ \E jpg \in Orders(Glob(dirEntries, ".jpg")),
                  png \in Orders(Glob(dirEntries, ".png")) :
                  /\ image_files' = png \o jpg
                  /\ IF png \o jpg = <<>>
                     THEN Exit(0)
                     ELSE pc' = "clients" /\ UNCHANGED exitStatus
    /\ UNCHANGED <<firstRun, returned, environ, dirExists, dirEntries, config, clients,
                   idx, s3_key, labels, now, calls, s3objects, table,
                   processedLog, failedLog, completed>>

GetImageFiles ==
    /\ pc = "get_image_files"
    /\ dirChecked' = TRUE
    /\ IF ~dirExists
       THEN /\ Exit(1)
            /\ UNCHANGED <<image_files, listed>>
       ELSE /\ listed' = TRUE
            /\ \E jpg \in Orders(Glob(dirEntries, ".jpg")),
                  png \in Orders(Glob(dirEntries, ".png")) :
                  /\ image_files' = jpg \o png
                  /\ IF jpg \o png = <<>>
                     THEN Exit(0)
                     ELSE pc' = "clients" /\ UNCHANGED exitStatus
    /\ UNCHANGED <<firstRun, returned, environ, dirExists, dirEntries, config, clients, idx,
                   s3_key, labels, now, calls, s3objects, table,
                   processedLog, failedLog, completed>>

(***************************************************************************)
(* The three boto3.client(...) constructions (lines 165-167).  They stand  *)
(* outside every try: an exception of a constructor (botocore rejects a    *)
(* malformed region name, an unreadable profile, ...) ends the run with    *)
(* a traceback and status 1.                                               *)
(***************************************************************************)
CreateClients ==
    /\ pc = "clients"
    /\ \E ok \in BOOLEAN :
          IF ok
          THEN /\ clients' = TRUE
               /\ pc' = "loop"
               /\ UNCHANGED exitStatus
          ELSE /\ Exit(1)
               /\ UNCHANGED clients
    /\ UNCHANGED <<firstRun, returned, environ, dirExists, dirEntries, config, image_files, idx,
                   s3_key, labels, now, calls, s3objects, table, dirChecked,
                   listed, processedLog, failedLog, completed>>

(***************************************************************************)
(* The loop of main (lines 170-181).                                       *)
(***************************************************************************)
\* image_file of the running iteration
Current == image_files[idx]

\* for image_file in image_files: the next file enters process_single_image
ForNext ==
    /\ pc = "loop"
    /\ idx <= Len(image_files)
    /\ pc' = "upload"
    /\ UNCHANGED <<firstRun, returned, environ, dirExists, dirEntries, config, image_files, clients,
                   idx, s3_key, labels, now, calls, s3objects, table,
                   dirChecked, listed, processedLog, failedLog, completed,
                   exitStatus>>

\* the mutant below leaves the loop at the first failure (break)
HandleFailureBreak ==
    /\ failedLog' = failedLog \cup {Name(Current)}
    /\ idx' = Len(image_files) + 1
    /\ pc' = "loop"
    /\ s3_key' = ""
    /\ labels' = <<>>
    /\ UNCHANGED <<completed, exitStatus>>

\* the mutant below lets the exception leave main (no try/except)
HandleFailureRaise ==
    /\ Exit(1)
    /\ s3_key' = ""
    /\ labels' = <<>>
    /\ UNCHANGED <<idx, failedLog, completed>>

\* the mutant below runs the failed file again
HandleFailureRetry ==
    /\ failedLog' = failedLog \cup {Name(Current)}
    /\ pc' = "loop"
    /\ s3_key' = ""
    /\ labels' = <<>>
    /\ UNCHANGED <<idx, completed, exitStatus>>

\* except Exception as e: print(...); continue (lines 179-181): the
\* exception of a step ends process_single_image and the loop goes on
HandleFailure ==
    /\ failedLog' = failedLog \cup {Name(Current)}
    /\ idx' = idx + 1
    /\ pc' = "loop"
    /\ s3_key' = ""
    /\ labels' = <<>>
    /\ UNCHANGED <<completed, exitStatus>>

(***************************************************************************)
(* Step 1: upload_to_s3 (lines 43-51), called at lines 133-134.            *)
(***************************************************************************)
\* the mutant below swallows the exception: the pipeline goes on
UploadRaisedSwallow(key) ==
    /\ calls' = Append(calls, Call("upload_file", Name(Current), key, FALSE))
    /\ s3_key' = key
    /\ pc' = "analyze"
    /\ UNCHANGED <<idx, labels, failedLog, completed, exitStatus, s3objects>>

\* the mutant below calls upload_file a second time before giving up
UploadRaisedRetry(key) ==
    /\ calls' = calls \o << Call("upload_file", Name(Current), key, FALSE),
                            Call("upload_file", Name(Current), key, FALSE) >>
    /\ HandleFailure
    /\ UNCHANGED s3objects

\* upload_file raised: print and re-raise (lines 49-51)
UploadRaised(key) ==
    /\ calls' = Append(calls, Call("upload_file", Name(Current), key, FALSE))
    /\ HandleFailure
    /\ UNCHANGED s3objects

UploadToS3 ==
    /\ pc = "upload"
    /\ LET key == S3Key(Name(Current))
       IN  \/ /\ calls' = Append(calls,
                              Call("upload_file", Name(Current), key, TRUE))
              /\ s3objects' = s3objects \cup {key}
              /\ s3_key' = key
              /\ pc' = "analyze"
              /\ UNCHANGED <<idx, labels, failedLog, completed, exitStatus>>
           \/ UploadRaised(key)
    /\ UNCHANGED <<firstRun, returned, environ, dirExists, dirEntries, config, image_files, clients,
                   now, table, dirChecked, listed, processedLog>>

(***************************************************************************)
(* Step 2: analyze_image_with_rekognition (lines 53-85), called at 137.    *)
(***************************************************************************)
\* the mutant below swallows the exception and returns no label
AnalyzeRaisedSwallow(name) ==
    /\ calls' = Append(calls, Call("detect_labels", Name(Current), name, FALSE))
    /\ labels' = <<>>
    /\ pc' = "store"
    /\ UNCHANGED <<idx, s3_key, failedLog, completed, exitStatus>>

\* detect_labels, or the formatting of its response, raised: print and
\* re-raise (lines 83-85)
AnalyzeRaised(name) ==
    /\ calls' = Append(calls, Call("detect_labels", Name(Current), name, FALSE))
    /\ HandleFailure

\* the mutant below deletes the uploaded object when the analysis fails
AnalyzeImageCompensate ==
    /\ pc = "analyze"
    /\ LET name == AnalyzedName(Name(Current), s3_key)
       IN  \/ \E response \in VisionResponses :
                /\ calls' = Append(calls,
                              Call("detect_labels", Name(Current), name, TRUE))
                /\ returned' = (Name(Current) :> response) @@ returned
                /\ labels' = FormatLabels(response)
                /\ pc' = "store"
                /\ UNCHANGED <<idx, s3_key, failedLog, completed, exitStatus,
                               s3objects>>
           \/ /\ AnalyzeRaised(name)
              /\ s3objects' = s3objects \ {s3_key}
              /\ UNCHANGED returned
    /\ UNCHANGED <<firstRun, environ, dirExists, dirEntries, config, image_files, clients,
                   now, table, dirChecked, listed, processedLog>>

AnalyzeImage ==
    /\ pc = "analyze"
    /\ LET name == AnalyzedName(Name(Current), s3_key)
       IN  \/ \E response \in VisionResponses :
                /\ calls' = Append(calls,
                              Call("detect_labels", Name(Current), name, TRUE))
                /\ returned' = (Name(Current) :> response) @@ returned
                /\ labels' = FormatLabels(response)
                /\ pc' = "store"
                /\ UNCHANGED <<idx, s3_key, failedLog, completed, exitStatus>>
           \/ AnalyzeRaised(name) /\ UNCHANGED returned
    /\ UNCHANGED <<firstRun, environ, dirExists, dirEntries, config, image_files, clients,
                   now, s3objects, table, dirChecked, listed, processedLog>>

(***************************************************************************)
(* Step 3: store_results_in_dynamodb (lines 87-120), called at 140-146,    *)
(* and the end of process_single_image (lines 148-151).                    *)
(***************************************************************************)
\* put_item raised: print and re-raise (lines 118-120)
StoreRaised(filename) ==
    /\ calls' = Append(calls, Call("put_item", Name(Current), filename, FALSE))
    /\ HandleFailure
    /\ UNCHANGED <<table, processedLog>>

StoreResults ==
    /\ pc = "store"
    /\ \E t \in now..Min(now + 1, MaxClock) :
          /\ now' = t
          /\ LET filename == RecordFilename(Name(Current), s3_key)
                 item == Item(filename, t, labels, config.branch_name)
             IN  \/ /\ calls' = Append(calls,
                              Call("put_item", Name(Current), filename, TRUE))
                    /\ table' = PutItem(table, DynamoItem(item))
                    /\ processedLog' = processedLog \cup {Name(Current)}
                    /\ idx' = idx + 1
                    /\ pc' = "loop"
                    /\ s3_key' = ""
                    /\ labels' = <<>>
                    /\ UNCHANGED <<failedLog, completed, exitStatus>>
                 \/ StoreRaised(filename)
    /\ UNCHANGED <<firstRun, returned, environ, dirExists, dirEntries, config, image_files, clients,
                   s3objects, dirChecked, listed>>

(***************************************************************************)
(* The end of main (lines 183-185): the summary, then exit status 0.       *)
(***************************************************************************)
PipelineCompleted ==
    /\ pc = "loop"
    /\ idx > Len(image_files)
    /\ completed' = TRUE
    /\ Exit(0)
    /\ UNCHANGED <<firstRun, returned, environ, dirExists, dirEntries, config, image_files, clients,
                   idx, s3_key, labels, now, calls, s3objects, table,
                   dirChecked, listed, processedLog, failedLog>>

Next ==
    \/ ValidateEnvironment
    \/ GetImageFiles
    \/ CreateClients
    \/ ForNext
    \/ UploadToS3
    \/ AnalyzeImage
    \/ StoreResults
    \/ PipelineCompleted

Spec == Init /\ [][Next]_vars

(***************************************************************************)
(* Two runs of main over the same image_files.  When a run whose clients   *)
(* were constructed has ended, RunAgain puts on record what it did for     *)
(* one file and starts the loop of main again, on the same image_files     *)
(* and a bucket and table as they were before the first run; the           *)
(* services answer the second run as they please.                          *)
(***************************************************************************)
\* what the run did for the file named f: its calls, the response
\* detect_labels returned for it, if any, and the items stored for it
\* (without their timestamp)
RunRecord(f) ==
    [done        |-> TRUE,
     file        |-> f,
     calls       |-> SelectSeq(calls, LAMBDA c : c.file = f),
     given       |-> IF f \in DOMAIN returned THEN << returned[f] >> ELSE <<>>,
     items       |-> {[filename |-> r.filename, labels |-> r.labels,
                       branch |-> r.branch] :
                         r \in {t \in table : t.filename = S3Key(f)}},
     otherFailed |-> failedLog \ {f} /= {}]

RunAgain ==
    /\ pc = "exited"
    /\ clients
    /\ ~firstRun.done
    /\ \E i \in 1..Len(image_files) :
          firstRun' = RunRecord(Name(image_files[i]))
    /\ pc' = "loop"
    /\ idx' = 1
    /\ s3_key' = ""
    /\ labels' = <<>>
    /\ now' = 0
    /\ calls' = <<>>
    /\ returned' = [f \in {} |-> <<>>]
    /\ s3objects' = {}
    /\ table' = {}
    /\ processedLog' = {}
    /\ failedLog' = {}
    /\ completed' = FALSE
    /\ exitStatus' = NoStatus
    /\ UNCHANGED <<environ, dirExists, dirEntries, config, image_files,
                   clients, dirChecked, listed>>

NextPair == Next \/ RunAgain

PairSpec == Init /\ [][NextPair]_vars

\* every call returns or raises, and main is the only thread: a step that
\* is enabled is eventually taken
FairSpec == Spec /\ WF_vars(Next)

TypeOK ==
    /\ pc \in {"validate", "get_image_files", "clients", "loop", "upload",
               "analyze", "store", "exited"}
    /\ exitStatus \in {NoStatus, 0, 1}
    /\ idx \in 1..(Len(image_files) + 1)
    /\ now \in 0..MaxClock

(***************************************************************************)
(* Observations the properties are stated on.                              *)
(***************************************************************************)
AllNames == {Name(e) : e \in Entries}

\* the calls made for the file named f, in the order they were made
CallsOf(f) == SelectSeq(calls, LAMBDA c : c.file = f)

\* how many calls of operation op were made for the file named f
Count(f, op) ==
    Cardinality({i \in DOMAIN calls : calls[i].file = f /\ calls[i].op = op})

\* the state of the file named f in the per-file pipeline, read off the
\* outcome of the last step run for it
FileState(f) ==
    LET cs == CallsOf(f)
    IN  IF cs = <<>> THEN "Pending"
        ELSE LET last == cs[Len(cs)]
             IN  IF ~last.ok THEN "Failed"
                 ELSE IF last.op = "upload_file" THEN "Uploaded"
                 ELSE IF last.op = "detect_labels" THEN "Analyzed"
                 ELSE "Recorded"

\* the number of hundredths a number text stands for
Digit(c) ==
    CASE c = "0" -> 0 [] c = "1" -> 1 [] c = "2" -> 2 [] c = "3" -> 3
      [] c = "4" -> 4 [] c = "5" -> 5 [] c = "6" -> 6 [] c = "7" -> 7
      [] c = "8" -> 8 [] c = "9" -> 9

RECURSIVE Digits(_)
Digits(text) ==
    IF text = "" THEN 0
    ELSE 10 * Digits(SubSeq(text, 1, Len(text) - 1))
            + Digit(SubSeq(text, Len(text), Len(text)))

ParseFloat(text) ==
    LET dot == CHOOSE i \in 1..Len(text) : SubSeq(text, i, i) = "."
        int == Digits(SubSeq(text, 1, dot - 1))
        dec == SubSeq(text, dot + 1, Len(text))
    IN  100 * int + (IF Len(dec) = 1 THEN 10 * Digits(dec) ELSE Digits(dec))

\* the labels a stored item carries, read back from its text
StoredLabels(r) ==
    [i \in 1..((Len(r.labels) - 2) \div 6) |->
        [Name       |-> r.labels[6 * i - 2],
         Confidence |-> ParseFloat(r.labels[6 * i])]]

\* all four required variables are set to a non-empty value
EnvComplete == \A var \in RequiredNames : environ[var] \notin {Unset, ""}

\* names of the entries of images/ that end in .jpg or .png
Matching == {Name(e) : e \in {d \in dirEntries : d.suffix \in {".jpg", ".png"}}}

NoExternalCall == calls = <<>> /\ s3objects = {} /\ table = {}

\* names of image_files, in order
FileNames == [i \in 1..Len(image_files) |-> Name(image_files[i])]

(***************************************************************************)
(* C1: a file whose three steps all succeeded has had exactly one          *)
(* upload_file, one detect_labels and one put_item call, in that order,    *)
(* all three with the key "rekognition-input/<basename>", and the item     *)
(* stored for it carries that key as its filename.                         *)
(***************************************************************************)
C1_OneCallEachSameKey ==
    \A f \in processedLog :
        LET key == "rekognition-input/" \o f
        IN  /\ CallsOf(f) = << Call("upload_file", f, key, TRUE),
                               Call("detect_labels", f, key, TRUE),
                               Call("put_item", f, key, TRUE) >>
            /\ key \in s3objects
            /\ Cardinality({r \in table : r.filename = key}) = 1

C1_Witness ==
    /\ pc = "exited"
    /\ Cardinality(processedLog) >= 2
    /\ failedLog /= {}

(***************************************************************************)
(* C2: a failed step is the last step run for its file: after a failed     *)
(* upload neither detect_labels nor put_item is called for the file, and   *)
(* after a failed analysis no put_item is called and no item is stored     *)
(* for it.  With files a.jpg and b.png, every call for a.jpg succeeding    *)
(* with 3 labels and b.png uploaded but failing at the analysis, the run   *)
(* ends with exactly one item, for key rekognition-input/a.jpg.            *)
(***************************************************************************)
C2_ScenarioRun ==
    /\ pc = "exited"
    /\ FileNames = <<"a.jpg", "b.png">>
    /\ "a.jpg" \in processedLog
    /\ \E r \in table : /\ r.filename = "rekognition-input/a.jpg"
                       /\ Len(StoredLabels(r)) = 3
    /\ \E i \in DOMAIN calls : /\ calls[i].file = "b.png"
                               /\ calls[i].op = "detect_labels"
                               /\ ~calls[i].ok

C2_NoStepAfterFailure ==
    /\ \A f \in AllNames :
          LET cs == CallsOf(f)
          IN  /\ \A i \in DOMAIN cs : ~cs[i].ok => i = Len(cs)
              /\ (\E i \in DOMAIN cs : ~cs[i].ok /\ cs[i].op = "upload_file")
                    => Count(f, "detect_labels") = 0 /\ Count(f, "put_item") = 0
              /\ (\E i \in DOMAIN cs : ~cs[i].ok /\ cs[i].op = "detect_labels")
                    => /\ Count(f, "put_item") = 0
                       /\ \A r \in table : r.filename /= "rekognition-input/" \o f
    /\ C2_ScenarioRun =>
          /\ table = {r \in table : r.filename = "rekognition-input/a.jpg"}
          /\ Cardinality(table) = 1
          /\ {"rekognition-input/a.jpg", "rekognition-input/b.png"} \subseteq s3objects
          /\ failedLog = {"b.png"}
          /\ exitStatus = 0

C2_Witness == C2_ScenarioRun

(***************************************************************************)
(* C3, as stated: once the configuration is complete and images/ exists,   *)
(* every enumerated file has had its upload attempted exactly once when    *)
(* the run ends.                                                           *)
(***************************************************************************)
C3_Original ==
    (pc = "exited" /\ EnvComplete /\ dirExists)
        => \A f \in Matching : Count(f, "upload_file") = 1

(***************************************************************************)
(* C3, amended: once the configuration is complete, images/ exists and     *)
(* the three clients are constructed, every enumerated file has had its    *)
(* upload attempted exactly once when the run ends, whatever the outcome   *)
(* of the files before it; during the run every file the loop has passed   *)
(* has had exactly one upload attempt and no file more than one.           *)
(***************************************************************************)
C3_UploadAttemptedOnceEach ==
    /\ (pc = "exited" /\ EnvComplete /\ dirExists /\ clients)
          => \A f \in Matching : Count(f, "upload_file") = 1
    /\ \A f \in AllNames : Count(f, "upload_file") <= 1
    /\ clients => \A i \in 1..Len(image_files) :
                     i < idx => Count(FileNames[i], "upload_file") = 1

C3_Witness ==
    /\ pc = "exited"
    /\ clients
    /\ Len(image_files) = 3
    /\ FileState(FileNames[1]) = "Failed"
    /\ FileState(FileNames[2]) = "Failed"
    /\ Count(FileNames[3], "upload_file") = 1

(***************************************************************************)
(* C4: when one of the four required variables is unset, the run ends      *)
(* with status 1 before images/ is looked at or listed, before the         *)
(* clients are built and before any call to S3, Rekognition or DynamoDB.   *)
(***************************************************************************)
C4_MissingConfigAborts ==
    (\E var \in RequiredNames : environ[var] = Unset)
        => /\ pc \in {"validate", "exited"}
           /\ pc = "exited" => exitStatus = 1
           /\ ~dirChecked /\ ~listed /\ ~clients
           /\ NoExternalCall

C4_Witness ==
    /\ pc = "exited"
    /\ exitStatus = 1
    /\ Cardinality({var \in RequiredNames : environ[var] = Unset}) = 1
    /\ \A var \in RequiredNames : environ[var] /= ""
    /\ dirExists
    /\ Matching /= {}

(***************************************************************************)
(* C5: when the configuration is complete and images/ does not exist, the  *)
(* run ends with status 1 and makes no call to S3, Rekognition or          *)
(* DynamoDB.                                                               *)
(***************************************************************************)
C5_MissingDirAborts ==
    (EnvComplete /\ ~dirExists)
        => /\ pc \in {"validate", "get_image_files", "exited"}
           /\ pc = "exited" => exitStatus = 1
           /\ ~clients
           /\ NoExternalCall

C5_Witness ==
    /\ pc = "exited"
    /\ EnvComplete
    /\ ~dirExists
    /\ dirChecked

(***************************************************************************)
(* C6: when the configuration is complete and images/ exists but holds no  *)
(* *.jpg and no *.png entry, the run ends with status 0 and makes no       *)
(* upload, no analysis and no record write.                                *)
(***************************************************************************)
C6_EmptyInputSucceeds ==
    (EnvComplete /\ dirExists /\ Matching = {})
        => /\ pc \in {"validate", "get_image_files", "exited"}
           /\ pc = "exited" => exitStatus = 0
           /\ ~clients
           /\ NoExternalCall

C6_Witness ==
    /\ pc = "exited"
    /\ exitStatus = 0
    /\ EnvComplete
    /\ dirExists
    /\ listed
    /\ Matching = {}
    /\ dirEntries /= {}

(***************************************************************************)
(* C7: every item of the table has a filename that is the key of exactly   *)
(* one successful upload of the run, made before the item was written,     *)
(* and the object is in the bucket.                                        *)
(***************************************************************************)
C7_RecordKeyWasUploaded ==
    \A r \in table :
        /\ Cardinality({i \in DOMAIN calls : /\ calls[i].op = "upload_file"
                                             /\ calls[i].ok
                                             /\ calls[i].key = r.filename}) = 1
        /\ \E i, j \in DOMAIN calls :
              /\ i < j
              /\ calls[i].op = "upload_file" /\ calls[i].ok
              /\ calls[i].key = r.filename
              /\ calls[j].op = "put_item" /\ calls[j].ok
              /\ calls[j].key = r.filename
        /\ r.filename \in s3objects

C7_Witness ==
    /\ Cardinality(table) >= 2
    /\ \E f \in AllNames : FileState(f) = "Failed" /\ Len(CallsOf(f)) = 1

(***************************************************************************)
(* C8, as stated: a run whose configuration is complete, whose images/     *)
(* exists and holds a matching file ends with the summary printed and      *)
(* status 0; nothing but a missing variable or a missing directory aborts  *)
(* a run.                                                                  *)
(***************************************************************************)
C8_Original ==
    (pc = "exited" /\ EnvComplete /\ dirExists /\ Matching /= {})
        => completed /\ exitStatus = 0

(***************************************************************************)
(* C8, amended: once the preconditions pass with a non-empty file list     *)
(* and the three clients are constructed, the run eventually prints its    *)
(* summary and ends with status 0, whichever steps of whichever files      *)
(* fail; a run ends with a non-zero status only when a variable is         *)
(* missing, images/ is missing, or the construction of the clients raised. *)
(***************************************************************************)
C8_RunCompletes ==
    /\ clients ~> (pc = "exited" /\ completed /\ exitStatus = 0)
    /\ [](pc = "exited" /\ clients => completed /\ exitStatus = 0)
    /\ []((pc = "exited" /\ exitStatus /= 0)
            => \/ ~EnvComplete
               \/ ~dirExists
               \/ (listed /\ Matching /= {} /\ ~clients /\ NoExternalCall))

C8_Witness ==
    /\ pc = "exited"
    /\ completed
    /\ exitStatus = 0
    /\ Len(image_files) >= 2
    /\ failedLog = {FileNames[i] : i \in 1..Len(image_files)}
    /\ \E i \in DOMAIN calls : calls[i].op = "put_item" /\ ~calls[i].ok
    /\ \E i \in DOMAIN calls : calls[i].op = "upload_file" /\ ~calls[i].ok

(***************************************************************************)
(* C9, as stated: the state of a file changes only along                   *)
(* Pending -> Uploaded -> Analyzed -> Recorded, Uploaded -> Failed or      *)
(* Pending -> Failed.                                                      *)
(***************************************************************************)
StatedTransitions ==
    { <<"Pending", "Uploaded">>, <<"Uploaded", "Analyzed">>,
      <<"Analyzed", "Recorded">>, <<"Uploaded", "Failed">>,
      <<"Pending", "Failed">> }

C9_Original ==
    [][\A f \in AllNames :
          \/ FileState(f)' = FileState(f)
          \/ <<FileState(f), FileState(f)'>> \in StatedTransitions]_vars

(***************************************************************************)
(* C9, amended: the state of a file changes only along                     *)
(* Pending -> Uploaded -> Analyzed -> Recorded, Pending -> Failed,         *)
(* Uploaded -> Failed or Analyzed -> Failed (the record step raised):      *)
(* the predecessors of Failed are Pending, Uploaded and Analyzed,          *)
(* Recorded and Failed have no outgoing transition, and no file is tried   *)
(* again.                                                                  *)
(***************************************************************************)
C9_Trajectories ==
    [][\A f \in AllNames :
          \/ FileState(f)' = FileState(f)
          \/ <<FileState(f), FileState(f)'>>
                \in StatedTransitions \cup { <<"Analyzed", "Failed">> }]_vars

C9_Witness ==
    \E f, g, h \in AllNames :
        /\ FileState(f) = "Failed" /\ Len(CallsOf(f)) = 3
        /\ FileState(g) = "Failed" /\ Len(CallsOf(g)) = 2
        /\ FileState(h) = "Recorded"

(***************************************************************************)
(* C10: for every file, upload_file, detect_labels and put_item are each   *)
(* called at most once, also when the call fails.                          *)
(***************************************************************************)
C10_AtMostOneCallPerStep ==
    \A f \in AllNames :
        \A op \in {"upload_file", "detect_labels", "put_item"} :
            Count(f, op) <= 1

C10_Witness ==
    /\ pc = "exited"
    /\ \E f, g, h \in AllNames :
          /\ CallsOf(f) = << Call("upload_file", f, "rekognition-input/" \o f, FALSE) >>
          /\ Len(CallsOf(g)) = 2 /\ FileState(g) = "Failed"
          /\ Len(CallsOf(h)) = 3 /\ FileState(h) = "Failed"

(***************************************************************************)
(* C11: image_files lists every *.jpg entry before every *.png entry, and  *)
(* the calls follow that order file by file: a call made for a file comes  *)
(* after every call made for the files before it in image_files, also      *)
(* when an earlier file failed.                                            *)
(***************************************************************************)
\* position of the file named f in image_files
Position(f) == CHOOSE i \in 1..Len(image_files) : FileNames[i] = f

C11_NoInterleaving ==
    /\ \A i, j \in 1..Len(image_files) :
          (image_files[i].suffix = ".png" /\ image_files[j].suffix = ".jpg")
              => j < i
    /\ listed => {FileNames[i] : i \in 1..Len(image_files)} = Matching
    /\ \A i \in 1..(Len(calls) - 1) :
          Position(calls[i].file) <= Position(calls[i + 1].file)

C11_Witness ==
    /\ pc = "exited"
    /\ Len(image_files) = 3
    /\ image_files[2].suffix = ".jpg"
    /\ image_files[3].suffix = ".png"
    /\ FileState(FileNames[1]) = "Failed"
    /\ FileState(FileNames[2]) = "Failed"
    /\ Len(CallsOf(FileNames[3])) = 3

(***************************************************************************)
(* C12: no step of the run removes an object from the bucket or an item    *)
(* from the table: an object uploaded stays stored in every later state,   *)
(* also after the analysis or the record step of its file failed.          *)
(***************************************************************************)
C12_NoCompensation ==
    /\ [][s3objects \subseteq s3objects' /\ table \subseteq table']_vars
    /\ [](\A i \in DOMAIN calls :
            (calls[i].op = "upload_file" /\ calls[i].ok)
                => calls[i].key \in s3objects)

C12_Witness ==
    /\ pc = "exited"
    /\ \E f, g \in AllNames :
          /\ FileState(f) = "Failed" /\ Len(CallsOf(f)) = 2
          /\ FileState(g) = "Failed" /\ Len(CallsOf(g)) = 3
          /\ {"rekognition-input/" \o f, "rekognition-input/" \o g}
                \subseteq s3objects
    /\ table /= {}

(***************************************************************************)
(* C14: the labels of every stored item have the length of the list        *)
(* detect_labels returned for the file of the item, and the same names     *)
(* in the same order.                                                      *)
(***************************************************************************)
\* the file name an item was stored for
FileOf(r) == CHOOSE f \in AllNames : r.filename = "rekognition-input/" \o f

C14_LabelOrderKept ==
    \A r \in table :
        /\ \E f \in AllNames : r.filename = "rekognition-input/" \o f
        /\ FileOf(r) \in DOMAIN returned
        /\ LET stored == StoredLabels(r)
               given  == returned[FileOf(r)]
           IN  /\ Len(stored) = Len(given)
               /\ \A i \in 1..Len(stored) : stored[i].Name = given[i].Name

C14_Witness ==
    \E r \in table :
        /\ Len(StoredLabels(r)) = 3
        /\ StoredLabels(r)[1].Confidence < StoredLabels(r)[3].Confidence

(***************************************************************************)
(* C15: a required variable set to the empty string is treated like an     *)
(* unset one: the run ends with status 1 before images/ is looked at or    *)
(* listed, before the clients are built and before any call to S3,         *)
(* Rekognition or DynamoDB.                                                *)
(***************************************************************************)
C15_EmptyValueIsMissing ==
    (\E var \in RequiredNames : environ[var] = "")
        => /\ pc \in {"validate", "exited"}
           /\ pc = "exited" => exitStatus = 1 /\ config = NoConfig
           /\ ~dirChecked /\ ~listed /\ ~clients
           /\ NoExternalCall

C15_Witness ==
    /\ pc = "exited"
    /\ exitStatus = 1
    /\ Cardinality({var \in RequiredNames : environ[var] = ""}) = 1
    /\ \A var \in RequiredNames : environ[var] /= Unset
    /\ dirExists
    /\ Matching /= {}

(***************************************************************************)
(* C16: every confidence of a stored item is the hundredth nearest to the  *)
(* confidence detect_labels returned for that label (the value rounded to  *)
(* 2 decimal places) and lies between 0 and 100.                           *)
(***************************************************************************)
C16_ConfidenceRounded ==
    \A r \in table :
        LET stored == StoredLabels(r)
            given  == returned[FileOf(r)]
        IN  \A i \in 1..Len(stored) :
                LET c == stored[i].Confidence       \* hundredths
                    n == given[i].Confidence        \* 64ths
                IN  /\ 0 <= c /\ c <= 100 * 100
                    /\ 16 * c - 25 * n <= 8
                    /\ 25 * n - 16 * c <= 8

C16_Witness ==
    \E r \in table :
        LET stored == StoredLabels(r)
        IN  /\ Len(stored) = 3
            /\ stored[1].Confidence = 9912
            /\ stored[2].Confidence = 9877
            /\ stored[3].Confidence = 100 * 100

(***************************************************************************)
(* C13: take two runs over the same image_files and a file j.  If the      *)
(* services answer the calls made for j alike in both runs (same success   *)
(* or failure of each call, same labels returned), then both runs make     *)
(* the same calls for j, leave j in the same final state and store the     *)
(* same items for j, whatever happens to the other files.                  *)
(***************************************************************************)
\* the second run answers the calls for the file on record as the first did
SameAnswers ==
    LET f   == firstRun.file
        cs1 == firstRun.calls
        cs2 == CallsOf(f)
    IN  /\ \A k \in 1..Min(Len(cs1), Len(cs2)) : cs1[k].ok = cs2[k].ok
        /\ (f \in DOMAIN returned /\ firstRun.given /= <<>>)
              => returned[f] = firstRun.given[1]

C13_FilesIndependent ==
    (firstRun.done /\ pc = "exited" /\ SameAnswers)
        => /\ RunRecord(firstRun.file).calls = firstRun.calls
           /\ RunRecord(firstRun.file).items = firstRun.items
           /\ Len(firstRun.calls) >= 1
           /\ LET cs == firstRun.calls
              IN  FileState(firstRun.file) =
                    IF ~cs[Len(cs)].ok THEN "Failed" ELSE "Recorded"

C13_Witness ==
    /\ firstRun.done
    /\ pc = "exited"
    /\ SameAnswers
    /\ Len(image_files) = 3
    /\ firstRun.file = FileNames[2]
    /\ firstRun.otherFailed
    /\ failedLog = {}
    /\ firstRun.given /= <<>>
    /\ Len(firstRun.given[1]) = 3
    /\ FileState(firstRun.file) = "Recorded"

====
